---- MODULE Spec2Model ----
(***************************************************************************)
(* Model of the LCSC/JLCPCB inventory loading job                          *)
(* (src/src/load_lcsc_inventory.py) and of the Dolt helper library it      *)
(* drives (src/src/_dolt_lib.py).                                          *)
(*                                                                         *)
(* One action is one external invocation (a dolt command, an HTTP          *)
(* download, a file read) together with the Python code that runs up to    *)
(* the next invocation.  The Dolt working copy is the environment: its     *)
(* catalog, its working/staged/committed/remote table contents.            *)
(*                                                                         *)
(*   Spec      - one run of main()                                         *)
(*   FairSpec  - the same, every external invocation returning             *)
(*   LibSpec   - a caller invoking the library functions in any order      *)
(*   DedupSpec - load_basic_csv_into_dolt on arbitrary small CSV inputs    *)
(*   QuerySpec - dolt_sql_query_to_polars_df on arbitrary small outputs    *)
(***************************************************************************)
EXTENDS Integers, Sequences, FiniteSets, TLC

VARIABLES
    mode,       \* "job": main() is running; "lib": a caller drives the library
    pc,         \* position in the code
    ret,        \* where the running library function returns to
    fn,         \* the library function running (or last run)
    res,        \* its outcome: "running", "ok", "raised"
    fault,      \* the exception raised, NoFault when none
    cmds,       \* the external invocations made, in order, with their outcome
    callStart,  \* Len(cmds) when the running library function was entered
    prev,       \* summary of the library call before the current one
    nCalls,     \* number of library calls entered
    stages,     \* the stages of main() entered, in order
    dataFolder, \* DATA_FOLDER on disk: "absent", "file" or "dir"
    sqliteFile, \* the SQLite download exists
    csvFile,    \* the CSV download exists
    cloneLeft,  \* repo_parent_path/.dolt as "dolt clone" left it: a folder tree
    tempDolt,   \* repo_parent_path/.dolt as it is now
    repoDir,    \* repo_parent_path/<repo>: "absent", "no_marker", "ok"
    catalog,    \* tables of the Dolt database
    work,       \* working set: table -> set of rows
    staged,     \* staged set
    head,       \* local branch: [rows: table -> set of rows, n: commits]
    remote,     \* remote branch, likewise
    names,      \* dolt_truncate_tables: table_names
    tidx,       \* dolt_truncate_tables: loop position
    lidx,       \* load_all_sqlite_tables_into_dolt: loop position
    tbl,        \* import_polars_df_into_dolt_table: table_name
    df,         \* the data frame at hand
    csvIn,      \* load_basic_csv_into_dolt: the frame as read, before cleaning
    work0,      \* working set when the running library function was entered
    dirty0,     \* whether the copy was dirty at that moment
    tmpDirs,    \* the temporary directories that exist
    captured,   \* dolt_sql_query_to_polars_df: result.stdout
    parquet     \* dolt_sql_query_to_polars_df: the bytes given to read_parquet

ctl == <<mode, pc, ret, fn, res, fault>>
hist == <<cmds, callStart, prev, nCalls, stages>>
disk == <<dataFolder, sqliteFile, csvFile, cloneLeft, tempDolt, repoDir>>
repo == <<catalog, work, staged, head, remote>>
locals == <<names, tidx, lidx, tbl, df, csvIn>>
snap == <<work0, dirty0>>
temp == <<tmpDirs, captured, parquet>>
vars == <<ctl, hist, disk, repo, locals, snap, temp>>

----------------------------------------------------------------------------
(* Bounds of the model *)

MaxCalls == 3
MaxNames == 2
MaxRuns == 2
MaxPayload == 3

----------------------------------------------------------------------------
(* Program constants *)

DOLT_REPO_NAME == "jlcpcb-lcsc-inventory"

DATA_FOLDER == <<"data">>

DATA_FOLDERS ==
    [data |-> DATA_FOLDER,
     source_download |-> DATA_FOLDER \o <<"source_download">>,
     dolt_repo |-> DATA_FOLDER \o <<DOLT_REPO_NAME>>]

BASIC_TABLE == "jlcpcb_components_basic"

TRUNCATE_TABLE_NAMES ==
    <<"jlcpcb_components_basic", "components", "manufacturers", "categories">>

(* the child table is listed before its parents *)
SQLITE_TABLE_NAMES_ChildFirst == <<"components", "manufacturers", "categories">>

(* a name is repeated in place of another *)
SQLITE_TABLE_NAMES_Repeated == <<"manufacturers", "manufacturers", "components">>

SQLITE_TABLE_NAMES == <<"manufacturers", "categories", "components">>

ROWS_REMOVED_LIMIT == 100

(* the table is created from the file *)
IMPORT_MODE_FLAG_Create == "--create-table"

IMPORT_MODE_FLAG == "--append-table"

Tables == {TRUNCATE_TABLE_NAMES[i] : i \in 1..Len(TRUNCATE_TABLE_NAMES)}

StageOrder == <<"prepare", "acquire", "clone", "truncate", "load", "publish">>

----------------------------------------------------------------------------
(* Sequences *)

ToSet(s) == {s[i] : i \in 1..Len(s)}

Reverse(s) == [i \in 1..Len(s) |-> s[Len(s) + 1 - i]]

IsPrefix(s, t) == Len(s) <= Len(t) /\ \A i \in 1..Len(s) : s[i] = t[i]

Last(s) == s[Len(s)]

SeqsUpTo(S, n) == UNION {[1..k -> S] : k \in 0..n}

RECURSIVE SelectOps(_, _)
SelectOps(log, op) ==
    IF log = <<>> THEN <<>>
    ELSE IF Head(log).op = op
         THEN <<Head(log)>> \o SelectOps(Tail(log), op)
         ELSE SelectOps(Tail(log), op)

----------------------------------------------------------------------------
(* Data frames.  A cell is <<v>> or Null; a row is a tuple of three cells,  *)
(* the first being the key column "lcsc".  A frame is a sequence of runs:   *)
(* [row, n] stands for n consecutive copies of the row.                     *)

Null == <<>>

Cell(v) == <<v>>

KeyCells == {Cell(1), Cell(2)}

ValueCells == {Null, Cell(1), Cell(2)}

Rows == KeyCells \X ValueCells \X ValueCells

Columns == 1..3

KeyColumn == 1

Height(frame) ==
    LET RECURSIVE Sum(_)
        Sum(s) == IF s = <<>> THEN 0 ELSE Head(s).n + Sum(Tail(s))
    IN Sum(frame)

FrameRows(frame) == {frame[i].row : i \in 1..Len(frame)}

(* descending=True, nulls_last=True on one cell *)
CellBefore(x, y) == x # Null /\ (y = Null \/ x[1] > y[1])

(* sort(df.columns, descending=True, nulls_last=True): rows compare column *)
(* by column, from the first                                               *)
RowBefore(r, s) ==
    \E c \in Columns :
        /\ \A b \in 1..(c - 1) : r[b] = s[b]
        /\ CellBefore(r[c], s[c])

RECURSIVE InsertRun(_, _)
InsertRun(sorted, run) ==
    IF sorted = <<>> THEN <<run>>
    ELSE IF RowBefore(run.row, Head(sorted).row)
         THEN <<run>> \o sorted
         ELSE <<Head(sorted)>> \o InsertRun(Tail(sorted), run)

RECURSIVE SortDescNullsLast(_)
SortDescNullsLast(frame) ==
    IF frame = <<>> THEN <<>>
    ELSE InsertRun(SortDescNullsLast(SubSeq(frame, 1, Len(frame) - 1)),
                   frame[Len(frame)])

(* unique("lcsc", keep="first", maintain_order=True) *)
RECURSIVE UniqueKeepFirst(_, _)
UniqueKeepFirst(frame, seen) ==
    IF frame = <<>> THEN <<>>
    ELSE IF Head(frame).row[KeyColumn] \in seen
         THEN UniqueKeepFirst(Tail(frame), seen)
         ELSE <<[row |-> Head(frame).row, n |-> 1]>>
              \o UniqueKeepFirst(Tail(frame),
                                 seen \cup {Head(frame).row[KeyColumn]})

Deduplicate(frame) == UniqueKeepFirst(SortDescNullsLast(frame), {})

(* the check is dropped *)
RowsRemovedTooMany_Never(rows_removed) == FALSE

(* the limit itself is refused *)
RowsRemovedTooMany_AtLimit(rows_removed) == rows_removed >= ROWS_REMOVED_LIMIT

RowsRemovedTooMany(rows_removed) == rows_removed > ROWS_REMOVED_LIMIT

----------------------------------------------------------------------------
(* The Dolt working copy, as the commands see it *)

EmptyTables == [t \in Tables |-> {}]

Commit(rows, n) == [rows |-> rows, n |-> n]

WorkingTreeClean == work = staged /\ staged = head.rows

(* stdout of "dolt status", as a sequence of text pieces *)
DoltStatusStdout ==
    <<"On branch main", "\n">>
    \o (IF head # remote
        THEN <<"Your branch is ahead of 'origin/main' by 1 commit.", "\n">>
        ELSE <<>>)
    \o (IF staged # head.rows
        THEN <<"Changes to be committed:", "\n", "modified: tables", "\n">>
        ELSE <<>>)
    \o (IF work # staged
        THEN <<"Changes not staged for commit:", "\n", "modified: tables", "\n">>
        ELSE <<>>)
    \o (IF WorkingTreeClean
        THEN <<"nothing to commit, ", "working tree clean", "\n">>
        ELSE <<>>)

(* "DELETE FROM t;" succeeds only on a table of the database *)
DoltDeleteExits(t) == IF t \in catalog THEN {0, 1} ELSE {1}

DoltDelete(w, t) == [w EXCEPT ![t] = {}]

(* "dolt table import --append-table" never creates a table *)
DoltImportExits(t, flag) ==
    IF t \in catalog \/ flag = "--create-table" THEN {0, 1} ELSE {1}

(* only "--create-table" adds a table to the database *)
DoltTableImportCatalog(cat, t, flag) ==
    IF flag = "--create-table" THEN cat \cup {t} ELSE cat

DoltTableImport(w, t, frame, flag) ==
    IF flag = "--append-table" THEN [w EXCEPT ![t] = @ \cup FrameRows(frame)]
    ELSE [w EXCEPT ![t] = FrameRows(frame)]

(* "dolt commit" refuses to create an empty commit *)
DoltCommitExits == IF staged # head.rows THEN {0, 1} ELSE {1}

DoltCommit(h, index) == Commit(index, h.n + 1)

ExitCodes == {0, 1}

----------------------------------------------------------------------------
(* _dolt_lib.py: running commands *)

SubprocessRun(exit, check) == IF check /\ exit # 0 THEN "raise" ELSE "ok"

(* check=False in place of check=True: a nonzero exit goes unnoticed *)
dolt_run_command_Unchecked(exit, check) == SubprocessRun(exit, FALSE)

dolt_run_command(exit, check) == SubprocessRun(exit, check)

dolt_run_command_capture_output(exit, check) == SubprocessRun(exit, check)

(* with tempfile.TemporaryDirectory() as temp_dir: ... the directory is    *)
(* made on entry to the block and removed when the block is left.  The     *)
(* block is left when its command returned ("ok") or raised ("raise").     *)
(* Here the directory is removed only when the block is left normally.     *)
TemporaryDirectoryCleanup_OnReturnOnly(outcome) == outcome = "ok"

TemporaryDirectoryCleanup(outcome) == outcome \in {"ok", "raise"}

(* The temporary directories that exist once a block that made directory   *)
(* d has been left with the given outcome.                                 *)
TemporaryDirectory(live, d, outcome) ==
    LET entered == live \cup {d}
    IN  IF TemporaryDirectoryCleanup(outcome) THEN entered \ {d} ELSE entered

Whitespace == {"\n", " "}

RECURSIVE LStrip(_)
LStrip(s) ==
    IF s # <<>> /\ Head(s) \in Whitespace THEN LStrip(Tail(s)) ELSE s

Strip(s) == Reverse(LStrip(Reverse(LStrip(s))))

EndsWith(s, suffix) ==
    /\ Len(suffix) <= Len(s)
    /\ SubSeq(s, Len(s) - Len(suffix) + 1, Len(s)) = suffix

(* the output is not stripped before the comparison *)
dolt_check_status_is_repo_dirty_NoStrip(stdout) ==
    ~EndsWith(stdout, <<"working tree clean">>)

(* the negation is dropped *)
dolt_check_status_is_repo_dirty_Inverted(stdout) ==
    EndsWith(Strip(stdout), <<"working tree clean">>)

dolt_check_status_is_repo_dirty(stdout) ==
    ~EndsWith(Strip(stdout), <<"working tree clean">>)

----------------------------------------------------------------------------
(* dolt_sql_query_to_polars_df: the progress messages around the output *)

(* Bytes are sequences of pieces; no piece is made of other pieces. *)
PROGRESS_START == <<"Processed", " 0.0% of the file", "\n">>

PROGRESS_END == <<"Processed", " 100.0% of the file", "\n">>

StartsWith(s, prefix) == IsPrefix(prefix, s)

(* position of the first sep in b; 0 when there is none *)
Find(b, sep) ==
    IF \E i \in 1..Len(b) : b[i] = sep
    THEN CHOOSE i \in 1..Len(b) : b[i] = sep /\ \A j \in 1..(i - 1) : b[j] # sep
    ELSE 0

(* position of the last sep in b; 0 when there is none *)
RFind(b, sep) ==
    IF \E i \in 1..Len(b) : b[i] = sep
    THEN CHOOSE i \in 1..Len(b) :
            b[i] = sep /\ \A j \in (i + 1)..Len(b) : b[j] # sep
    ELSE 0

(* b.split(sep, 1)[1]: what follows the first sep *)
SplitOnceSecond(b, sep) == SubSeq(b, Find(b, sep) + 1, Len(b))

(* the output is cut at the first sep, not the last one *)
RSplitOnceFirst_AtFirst(b, sep) == SubSeq(b, 1, Find(b, sep) - 1)

(* b.rsplit(sep, 1)[0]: what precedes the last sep *)
RSplitOnceFirst(b, sep) == SubSeq(b, 1, RFind(b, sep) - 1)

(* lines 105-111 *)
TrimProgressMessages(stdout) ==
    LET trimmed_start == IF StartsWith(stdout, PROGRESS_START)
                         THEN SplitOnceSecond(stdout, "\n")
                         ELSE stdout
    IN  IF EndsWith(trimmed_start, PROGRESS_END)
        THEN RSplitOnceFirst(trimmed_start, "Processed")
        ELSE trimmed_start

(* The pieces a query result is made of: parquet bytes, and the pieces of  *)
(* the progress messages, which a result may hold as data.                 *)
PayloadPieces ==
    {"PAR1", "\n", "Processed", " 0.0% of the file", " 100.0% of the file"}

Payloads == SeqsUpTo(PayloadPieces, MaxPayload)

(* What "dolt sql --result-format=parquet" writes to stdout: the result,   *)
(* with or without each of the two progress messages around it.            *)
DoltSqlStdouts ==
    {start \o payload \o end :
        start \in {<<>>, PROGRESS_START},
        payload \in Payloads,
        end \in {<<>>, PROGRESS_END}}

(* dolt_list_tables: the first column of SHOW TABLES *)
dolt_list_tables(exit) == IF exit = 0 THEN catalog ELSE {}

NormalizeTableNames(table_names) ==
    IF table_names.isStr THEN <<table_names.val>> ELSE table_names.val

(* only the first requested name is checked *)
TableNamesValid_FirstOnly(table_names, valid_table_names) ==
    table_names = <<>> \/ table_names[1] \in valid_table_names

TableNamesValid(table_names, valid_table_names) ==
    ToSet(table_names) \subseteq valid_table_names

MissingTableNames(table_names, valid_table_names) ==
    ToSet(table_names) \ valid_table_names

(* the loop stops one table early *)
TruncateLoopDone_OffByOne(i, table_names) == i >= Len(table_names)

TruncateLoopDone(i, table_names) == i > Len(table_names)

(* the membership test is dropped *)
TableExists_Always(table_name, existing_table_list) == TRUE

TableExists(table_name, existing_table_list) ==
    table_name \in existing_table_list

----------------------------------------------------------------------------
(* Control: exceptions, returns, the log of invocations *)

NoFault == [kind |-> "none", msg |-> "", missing |-> {}, at |-> 0, stage |-> 0]

Invocation(op, arg, flag, exit, stage) ==
    [op |-> op, arg |-> arg, flag |-> flag, ok |-> exit = 0, stage |-> stage]

(* An exception nobody catches ends main(); a library caller gets it back. *)
(* main() catches the exception and starts over *)
Raised_Retry(kind, msg, missing, log, stage) ==
    /\ pc' = IF mode = "job" THEN "main_prepare" ELSE "idle"
    /\ res' = "raised"
    /\ fault' = [kind |-> kind, msg |-> msg, missing |-> missing,
                 at |-> Len(log), stage |-> stage]

Raised(kind, msg, missing, log, stage) ==
    /\ pc' = IF mode = "job" THEN "aborted" ELSE "idle"
    /\ res' = "raised"
    /\ fault' = [kind |-> kind, msg |-> msg, missing |-> missing,
                 at |-> Len(log), stage |-> stage]

Continue(target) ==
    /\ pc' = target
    /\ res' = "running"
    /\ fault' = NoFault

Returned(target) ==
    /\ pc' = target
    /\ res' = "ok"
    /\ fault' = NoFault

CallCmds == SubSeq(cmds, callStart + 1, Len(cmds))

CountOk(log, op) == Cardinality({i \in 1..Len(log) : log[i].op = op /\ log[i].ok})

NoCall == [fn |-> "none", res |-> "none", commits |-> 0, pushes |-> 0]

CallSummary ==
    [fn |-> fn, res |-> res,
     commits |-> CountOk(CallCmds, "commit"),
     pushes |-> CountOk(CallCmds, "push")]

(* Entering a library function: the previous call is summarised, the state *)
(* of the working copy is remembered.                                      *)
EnterCall(f, retpc, base) ==
    /\ fn' = f
    /\ ret' = retpc
    /\ callStart' = Len(base)
    /\ prev' = IF fn = "none" THEN NoCall ELSE CallSummary
    /\ nCalls' = nCalls + 1
    /\ work0' = work
    /\ dirty0' = ~WorkingTreeClean

CurStage == Len(stages)

----------------------------------------------------------------------------
(* dolt_truncate_tables *)

(* Entry: the catalog is read and the requested names are checked against  *)
(* it before any statement is issued.                                      *)
TruncateEntry(arg, retpc, base, stage) ==
    \E exit \in ExitCodes :
        LET table_names == NormalizeTableNames(arg)
            log == Append(base, Invocation("show_tables", "", "", exit, stage))
            valid_table_names == dolt_list_tables(exit)
        IN  /\ EnterCall("dolt_truncate_tables", retpc, base)
            /\ cmds' = log
            /\ names' = table_names
            /\ tidx' = 1
            /\ tmpDirs' = TemporaryDirectory(tmpDirs, Len(log),
                             dolt_run_command_capture_output(exit, TRUE))
            /\ IF dolt_run_command_capture_output(exit, TRUE) = "raise"
               THEN Raised("CalledProcessError", "nonzero exit", {}, log, stage)
               ELSE IF ~TableNamesValid(table_names, valid_table_names)
               THEN Raised("ValueError", "tables not in the repository",
                           MissingTableNames(table_names, valid_table_names),
                           log, stage)
               ELSE IF TruncateLoopDone(1, table_names)
               THEN Returned(retpc)
               ELSE Continue("trunc_loop")

(* the list is walked from its end *)
TruncateTarget_Backwards(table_names, i) ==
    table_names[Len(table_names) + 1 - i]

(* for table_name in table_names: the name of iteration i *)
TruncateTarget(table_names, i) == table_names[i]

(* One iteration of the loop: DELETE FROM <table>; *)
TruncateStep ==
    /\ pc = "trunc_loop"
    /\ LET t == TruncateTarget(names, tidx)
       IN \E exit \in DoltDeleteExits(t) :
            LET log == Append(cmds, Invocation("delete", t, "", exit, CurStage))
            IN  /\ cmds' = log
                /\ work' = IF exit = 0 THEN DoltDelete(work, t) ELSE work
                /\ tmpDirs' = TemporaryDirectory(tmpDirs, Len(log),
                                                 dolt_run_command(exit, TRUE))
                /\ IF dolt_run_command(exit, TRUE) = "raise"
                   THEN /\ Raised("CalledProcessError", "nonzero exit", {}, log, CurStage)
                        /\ tidx' = tidx
                   ELSE /\ tidx' = tidx + 1
                        /\ IF TruncateLoopDone(tidx + 1, names)
                           THEN Returned(ret)
                           ELSE Continue("trunc_loop")
    /\ UNCHANGED <<mode, ret, fn, callStart, prev, nCalls, stages, disk,
                   catalog, staged, head, remote, names, lidx, tbl, df, csvIn,
                   snap, captured, parquet>>

----------------------------------------------------------------------------
(* import_polars_df_into_dolt_table *)

ImportEntry(table_name, frame, retpc, base, stage) ==
    \E exit \in ExitCodes :
        LET log == Append(base, Invocation("show_tables", "", "", exit, stage))
            existing_table_list == dolt_list_tables(exit)
        IN  /\ EnterCall("import_polars_df_into_dolt_table", retpc, base)
            /\ cmds' = log
            /\ tbl' = table_name
            /\ df' = frame
            /\ tmpDirs' = TemporaryDirectory(tmpDirs, Len(log),
                             dolt_run_command_capture_output(exit, TRUE))
            /\ IF dolt_run_command_capture_output(exit, TRUE) = "raise"
               THEN Raised("CalledProcessError", "nonzero exit", {}, log, stage)
               ELSE IF ~TableExists(table_name, existing_table_list)
               THEN Raised("ValueError", "table does not exist", {table_name}, log,
                           stage)
               ELSE Continue("imp_cmd")

(* The invocation of "dolt table import", with the rows of the parquet     *)
(* file written for it.                                                    *)
ImportInvocation(table_name, flag, exit, stage, frame) ==
    [op |-> "import", arg |-> table_name, flag |-> flag, ok |-> exit = 0,
     stage |-> stage, rows |-> FrameRows(frame)]

(* the import goes on to dolt add, commit and push *)
AfterImportCommand_Publishes(retpc) == "cp_add"

(* The import command is the last statement of the function: control goes  *)
(* back to the caller.                                                     *)
AfterImportCommand(retpc) == retpc

(* dolt table import --append-table --file-type=parquet <table> <file> *)
ImportCmd ==
    /\ pc = "imp_cmd"
    /\ \E exit \in DoltImportExits(tbl, IMPORT_MODE_FLAG) :
        LET log == Append(cmds, ImportInvocation(tbl, IMPORT_MODE_FLAG, exit,
                                                 CurStage, df))
        IN  /\ cmds' = log
            /\ work' = IF exit = 0
                       THEN DoltTableImport(work, tbl, df, IMPORT_MODE_FLAG)
                       ELSE work
            /\ catalog' = IF exit = 0
                          THEN DoltTableImportCatalog(catalog, tbl,
                                                      IMPORT_MODE_FLAG)
                          ELSE catalog
            /\ tmpDirs' = TemporaryDirectory(tmpDirs, Len(log),
                                             dolt_run_command(exit, TRUE))
            /\ IF dolt_run_command(exit, TRUE) = "raise"
               THEN Raised("CalledProcessError", "nonzero exit", {}, log, CurStage)
               ELSE Returned(AfterImportCommand(ret))
    /\ UNCHANGED <<mode, ret, fn, callStart, prev, nCalls, stages, disk,
                   staged, head, remote, locals, snap, captured, parquet>>

----------------------------------------------------------------------------
(* dolt_commit_and_push *)

(* A plain command of dolt_commit_and_push: it raises, or control goes on. *)
CommitStep(exit, log, next) ==
    /\ cmds' = log
    /\ IF dolt_run_command(exit, TRUE) = "raise"
       THEN Raised("CalledProcessError", "nonzero exit", {}, log, CurStage)
       ELSE IF next = "return" THEN Returned(ret) ELSE Continue(next)

(* Entry: dolt config --add user.name *)
CommitAndPushEntry(retpc, base, stage) ==
    \E exit \in ExitCodes :
        LET log == Append(base, Invocation("config", "user.name", "", exit,
                                           stage))
        IN  /\ EnterCall("dolt_commit_and_push", retpc, base)
            /\ cmds' = log
            /\ IF dolt_run_command(exit, TRUE) = "raise"
               THEN Raised("CalledProcessError", "nonzero exit", {}, log, stage)
               ELSE Continue("cp_config_email")

(* dolt config --add user.email *)
CommitConfigEmail ==
    /\ pc = "cp_config_email"
    /\ \E exit \in ExitCodes :
        CommitStep(exit,
                   Append(cmds, Invocation("config", "user.email", "", exit,
                                           CurStage)),
                   "cp_status")
    /\ UNCHANGED <<mode, ret, fn, callStart, prev, nCalls, stages, disk, repo,
                   locals, snap, temp>>

(* dolt status, and the dirty check on its output *)
CommitStatus ==
    /\ pc = "cp_status"
    /\ \E exit \in ExitCodes :
        LET log == Append(cmds, Invocation("status", "", "", exit, CurStage))
            stdout == IF exit = 0 THEN DoltStatusStdout ELSE <<>>
        IN  /\ cmds' = log
            /\ IF dolt_run_command_capture_output(exit, TRUE) = "raise"
               THEN Raised("CalledProcessError", "nonzero exit", {}, log, CurStage)
               ELSE IF ~dolt_check_status_is_repo_dirty(stdout)
               THEN Returned(ret)
               ELSE Continue("cp_add")
    /\ UNCHANGED <<mode, ret, fn, callStart, prev, nCalls, stages, disk, repo,
                   locals, snap, temp>>

(* dolt add . *)
CommitAdd ==
    /\ pc = "cp_add"
    /\ \E exit \in ExitCodes :
        /\ CommitStep(exit,
                      Append(cmds, Invocation("add", ".", "", exit, CurStage)),
                      "cp_commit")
        /\ staged' = IF exit = 0 THEN work ELSE staged
    /\ UNCHANGED <<mode, ret, fn, callStart, prev, nCalls, stages, disk,
                   catalog, work, head, remote, locals, snap, temp>>

(* dolt commit -m <message> *)
CommitCommit ==
    /\ pc = "cp_commit"
    /\ \E exit \in DoltCommitExits :
        /\ CommitStep(exit,
                      Append(cmds, Invocation("commit", "-m", "", exit, CurStage)),
                      "cp_push")
        /\ head' = IF exit = 0 THEN DoltCommit(head, staged) ELSE head
    /\ UNCHANGED <<mode, ret, fn, callStart, prev, nCalls, stages, disk,
                   catalog, work, staged, remote, locals, snap, temp>>

(* dolt push *)
CommitPush ==
    /\ pc = "cp_push"
    /\ \E exit \in ExitCodes :
        /\ CommitStep(exit,
                      Append(cmds, Invocation("push", "", "", exit, CurStage)),
                      "return")
        /\ remote' = IF exit = 0 THEN head ELSE remote
    /\ UNCHANGED <<mode, ret, fn, callStart, prev, nCalls, stages, disk,
                   catalog, work, staged, head, locals, snap, temp>>

----------------------------------------------------------------------------
(* dolt_clone_repository *)

(* A path below repo_parent_path/.dolt, and whether it is a directory *)
Entry(path, dir) == [path |-> path, dir |-> dir]

NoFolder == [kind |-> "absent", entries |-> {}]

(* repo_parent_path/.dolt after "dolt clone": nothing, a plain file, or a  *)
(* folder holding "tmp" (a file or a folder) and, in that folder, "tmp/x"  *)
(* (a file or a folder).  Every entry has its parent folder.               *)
TempDoltStates ==
    {NoFolder, [kind |-> "file", entries |-> {}]} \cup
    {[kind |-> "dir", entries |-> e] :
        e \in {{},
               {Entry(<<"tmp">>, FALSE)},
               {Entry(<<"tmp">>, TRUE)},
               {Entry(<<"tmp">>, TRUE), Entry(<<"tmp", "x">>, FALSE)},
               {Entry(<<"tmp">>, TRUE), Entry(<<"tmp", "x">>, TRUE)}}}

(* Path.is_dir() *)
is_dir(folder) == folder.kind = "dir"

(* only the entries directly below the folder are listed *)
rglob_TopLevelOnly(folder) == {f \in folder.entries : Len(f.path) = 1}

(* Path.rglob("*"): the entries below the folder, at any depth *)
rglob(folder) == folder.entries

(* files_list = [f for f in temp_dolt_folder.rglob("*") if not f.is_dir()] *)
files_list(folder) == {f \in rglob(folder) : ~f.dir}

(* shutil.rmtree(temp_dolt_folder) *)
rmtree(folder) == NoFolder

RepoDirStates == {"absent", "no_marker", "ok"}

(* neither the exit code nor the folders are checked *)
CloneOutcome_Unchecked(exit, tmp, rd) ==
    [kind |-> "none", msg |-> "", tmp |-> NoFolder]

(* the repository folder is checked, the .dolt folder in it is not *)
CloneOutcome_NoMarkerCheck(exit, tmp, rd) ==
    LET cleaned == IF is_dir(tmp) THEN rmtree(tmp) ELSE tmp
    IN  IF SubprocessRun(exit, TRUE) = "raise"
        THEN [kind |-> "CalledProcessError", msg |-> "nonzero exit", tmp |-> tmp]
        ELSE IF is_dir(tmp) /\ Cardinality(files_list(tmp)) > 0
        THEN [kind |-> "RuntimeError", msg |-> "unexpected files", tmp |-> tmp]
        ELSE IF rd = "absent"
        THEN [kind |-> "RuntimeError", msg |-> "expected the folder",
              tmp |-> cleaned]
        ELSE [kind |-> "none", msg |-> "", tmp |-> cleaned]

(* What dolt_clone_repository does once "dolt clone" has run and left the  *)
(* parent folder with the given .dolt folder and repository folder.        *)
CloneOutcome(exit, tmp, rd) ==
    LET cleaned == IF is_dir(tmp) THEN rmtree(tmp) ELSE tmp
    IN  IF SubprocessRun(exit, TRUE) = "raise"
        THEN [kind |-> "CalledProcessError", msg |-> "nonzero exit", tmp |-> tmp]
        ELSE IF is_dir(tmp) /\ Cardinality(files_list(tmp)) > 0
        THEN [kind |-> "RuntimeError", msg |-> "unexpected files", tmp |-> tmp]
        ELSE IF rd = "absent"
        THEN [kind |-> "RuntimeError", msg |-> "expected the folder",
              tmp |-> cleaned]
        ELSE IF rd = "no_marker"
        THEN [kind |-> "RuntimeError", msg |-> "expected the .dolt folder",
              tmp |-> cleaned]
        ELSE [kind |-> "none", msg |-> "", tmp |-> cleaned]

ClonedRepoPath(repo_parent_path, dolt_repo_name) ==
    repo_parent_path \o <<dolt_repo_name>>

----------------------------------------------------------------------------
(* Inputs of a run *)

OldRow == <<Cell(1), Cell(1), Cell(1)>>

NewRow == <<Cell(2), Cell(1), Cell(1)>>

Run(row, n) == [row |-> row, n |-> n]

(* What the remote repository may hold when it is cloned *)
RemoteContents(cat) ==
    {[t \in Tables |-> IF t \in cat THEN rows ELSE {}] :
        rows \in {{}, {OldRow}}}

(* What a table of the SQLite download may hold *)
JobSqliteInputs == {<<>>, <<Run(OldRow, 1)>>, <<Run(NewRow, 1)>>}

(* What the CSV download may hold *)
JobCsvInputs ==
    {<<>>,
     <<Run(OldRow, 1)>>,
     <<Run(<<Cell(1), Cell(2), Cell(1)>>, 1), Run(<<Cell(1), Cell(1), Cell(2)>>, 1)>>,
     <<Run(OldRow, 101)>>,
     <<Run(OldRow, 101), Run(OldRow, 1)>>}

CsvHeaders == {"lcsc", "mfr"}

RunLengths == {1, 101}

DedupInputs == SeqsUpTo({Run(r, n) : r \in Rows, n \in RunLengths}, MaxRuns)

----------------------------------------------------------------------------
(* load_lcsc_inventory.py *)

NoCallEntered ==
    UNCHANGED <<fn, ret, callStart, prev, nCalls, cmds, snap, tmpDirs>>

(* load_basic_csv_into_dolt, up to and including the first command of the  *)
(* import: read, check the first column, sort, deduplicate, check the      *)
(* number of rows removed.                                                 *)
LoadBasicCsv(readable, header, frame, retpc, stage) ==
    /\ csvIn' = IF readable THEN frame ELSE csvIn
    /\ IF ~readable
       THEN /\ Raised("ReadError", "read_csv", {}, cmds, stage)
            /\ NoCallEntered
            /\ UNCHANGED <<tbl, df>>
       ELSE IF header # "lcsc"
       THEN /\ Raised("ValueError", "unexpected column order", {}, cmds, stage)
            /\ NoCallEntered
            /\ UNCHANGED <<tbl, df>>
       ELSE LET starting_row_count == Height(frame)
                deduplicated == Deduplicate(frame)
                rows_removed == starting_row_count - Height(deduplicated)
            IN  IF RowsRemovedTooMany(rows_removed)
                THEN /\ Raised("ValueError", "removed too many rows", {}, cmds,
                               stage)
                     /\ NoCallEntered
                     /\ tbl' = tbl
                     /\ df' = deduplicated
                ELSE ImportEntry(BASIC_TABLE, deduplicated, retpc, cmds, stage)

(* main: clean up the data folder *)
MainPrepare ==
    /\ pc = "main_prepare"
    /\ stages' = Append(stages, "prepare")
    /\ IF dataFolder = "file"
       THEN /\ Raised("RuntimeError", "unexpected file at data folder", {}, cmds,
                      CurStage + 1)
            /\ dataFolder' = dataFolder
       ELSE /\ Continue("main_download_sqlite")
            /\ dataFolder' = "dir"
    /\ UNCHANGED <<mode, ret, fn, cmds, callStart, prev, nCalls, sqliteFile,
                   csvFile, cloneLeft, tempDolt, repoDir, repo, locals, snap,
                   temp>>

(* download_lcsc_sqlite_database *)
MainDownloadSqlite ==
    /\ pc = "main_download_sqlite"
    /\ stages' = Append(stages, "acquire")
    /\ \E exit \in ExitCodes :
        LET log == Append(cmds, Invocation("http_get", "sqlite", "", exit,
                                           CurStage + 1))
        IN  /\ cmds' = log
            /\ sqliteFile' = (exit = 0)
            /\ IF exit # 0
               THEN Raised("HTTPError", "raise_for_status", {}, log, CurStage + 1)
               ELSE Continue("main_download_csv")
    /\ UNCHANGED <<mode, ret, fn, callStart, prev, nCalls, dataFolder, csvFile,
                   cloneLeft, tempDolt, repoDir, repo, locals, snap,
                   temp>>

(* download_jlcpcb_basic_csv *)
MainDownloadCsv ==
    /\ pc = "main_download_csv"
    /\ \E exit \in ExitCodes :
        LET log == Append(cmds, Invocation("http_get", "csv", "", exit, CurStage))
        IN  /\ cmds' = log
            /\ csvFile' = (exit = 0)
            /\ IF exit # 0
               THEN Raised("HTTPError", "raise_for_status", {}, log, CurStage)
               ELSE Continue("main_clone")
    /\ UNCHANGED <<mode, ret, fn, callStart, prev, nCalls, stages, dataFolder,
                   sqliteFile, cloneLeft, tempDolt, repoDir, repo, locals, snap,
                   temp>>

(* dolt_clone_repository, and the check of the path it returns *)
MainClone ==
    /\ pc = "main_clone"
    /\ stages' = Append(stages, "clone")
    /\ \E exit \in ExitCodes, tmp \in TempDoltStates, rd \in RepoDirStates,
          cat \in SUBSET Tables :
        \E contents \in RemoteContents(cat) :
            LET log == Append(cmds, Invocation("clone", DOLT_REPO_NAME, "", exit,
                                               CurStage + 1))
                out == CloneOutcome(exit, tmp, rd)
                dolt_repo_path == ClonedRepoPath(DATA_FOLDER, DOLT_REPO_NAME)
            IN  /\ exit # 0 => rd = "absent"
                /\ rd # "ok" => (cat = {} /\ contents = EmptyTables)
                /\ EnterCall("dolt_clone_repository", "main_truncate", cmds)
                /\ cmds' = log
                /\ cloneLeft' = tmp
                /\ tempDolt' = out.tmp
                /\ repoDir' = rd
                /\ catalog' = cat
                /\ work' = contents
                /\ staged' = contents
                /\ head' = Commit(contents, 0)
                /\ remote' = Commit(contents, 0)
                /\ IF out.kind # "none"
                   THEN Raised(out.kind, out.msg, {}, log, CurStage + 1)
                   ELSE IF dolt_repo_path # DATA_FOLDERS.dolt_repo
                   THEN Raised("ValueError", "unexpected repo path", {}, log,
                               CurStage + 1)
                   ELSE Returned("main_truncate")
    /\ UNCHANGED <<mode, dataFolder, sqliteFile, csvFile, locals, temp>>

(* truncate_tables_in_order *)
MainTruncate ==
    /\ pc = "main_truncate"
    /\ stages' = Append(stages, "truncate")
    /\ TruncateEntry([isStr |-> FALSE, val |-> TRUNCATE_TABLE_NAMES],
                     "main_load_sqlite", cmds, CurStage + 1)
    /\ UNCHANGED <<mode, disk, repo, lidx, tbl, df, csvIn, captured, parquet>>

AfterSqliteTable(i) ==
    IF i > Len(SQLITE_TABLE_NAMES) THEN "main_load_csv" ELSE "main_load_sqlite"

(* load_all_sqlite_tables_into_dolt: the file check on entry, then one     *)
(* iteration of the loop, up to the first command of the import            *)
MainLoadSqlite ==
    /\ pc = "main_load_sqlite"
    /\ LET stage == IF lidx = 1 THEN CurStage + 1 ELSE CurStage
       IN  /\ stages' = IF lidx = 1 THEN Append(stages, "load") ELSE stages
           /\ \E readable \in BOOLEAN, frame \in JobSqliteInputs :
                IF lidx = 1 /\ ~sqliteFile
                THEN /\ Raised("FileNotFoundError", "sqlite input file", {},
                               cmds, stage)
                     /\ NoCallEntered
                     /\ UNCHANGED <<lidx, tbl, df>>
                ELSE IF ~readable
                THEN /\ Raised("ReadError", "read_database_uri", {}, cmds, stage)
                     /\ NoCallEntered
                     /\ UNCHANGED <<lidx, tbl, df>>
                ELSE /\ ImportEntry(SQLITE_TABLE_NAMES[lidx], frame,
                                    AfterSqliteTable(lidx + 1), cmds, stage)
                     /\ lidx' = lidx + 1
    /\ UNCHANGED <<mode, disk, repo, names, tidx, csvIn, captured, parquet>>

(* load_basic_csv_into_dolt *)
MainLoadCsv ==
    /\ pc = "main_load_csv"
    /\ \E readable \in BOOLEAN, header \in CsvHeaders, frame \in JobCsvInputs :
        LoadBasicCsv(readable, header, frame, "main_publish", CurStage)
    /\ UNCHANGED <<mode, stages, disk, repo, names, tidx, lidx, captured,
                   parquet>>

(* dolt_commit_and_push *)
MainPublish ==
    /\ pc = "main_publish"
    /\ stages' = Append(stages, "publish")
    /\ CommitAndPushEntry("done", cmds, CurStage + 1)
    /\ UNCHANGED <<mode, disk, repo, locals, temp>>

----------------------------------------------------------------------------
(* A caller of the library *)

(* The table names a caller passes *)
LibTables == {"manufacturers", "components"}

TruncateArgs ==
    {[isStr |-> TRUE, val |-> t] : t \in LibTables}
    \cup {[isStr |-> FALSE, val |-> s] : s \in SeqsUpTo(LibTables, MaxNames)}

LibFrames == {<<Run(OldRow, 1)>>}

CallerReady == mode = "lib" /\ pc = "idle" /\ nCalls < MaxCalls

LibTruncate ==
    /\ CallerReady
    /\ \E arg \in TruncateArgs : TruncateEntry(arg, "idle", <<>>, 0)
    /\ UNCHANGED <<mode, stages, disk, repo, lidx, tbl, df, csvIn, captured,
                   parquet>>

LibImport ==
    /\ CallerReady
    /\ \E t \in LibTables, frame \in LibFrames : ImportEntry(t, frame, "idle", <<>>, 0)
    /\ UNCHANGED <<mode, stages, disk, repo, names, tidx, lidx, csvIn,
                   captured, parquet>>

LibCommitAndPush ==
    /\ CallerReady
    /\ CommitAndPushEntry("idle", <<>>, 0)
    /\ UNCHANGED <<mode, stages, disk, repo, locals, temp>>

LibLoadBasicCsv ==
    /\ mode = "lib" /\ pc = "idle" /\ nCalls = 0 /\ fault = NoFault
    /\ \E header \in CsvHeaders, frame \in DedupInputs :
        LoadBasicCsv(TRUE, header, frame, "idle", 0)
    /\ UNCHANGED <<mode, stages, disk, repo, names, tidx, lidx, captured,
                   parquet>>

----------------------------------------------------------------------------
(* Specifications *)

(* dolt_sql_query_to_polars_df(dolt_repo_path, query) *)
LibQuery ==
    /\ mode = "lib"
    /\ pc = "idle"
    /\ nCalls = 0
    /\ \E exit \in ExitCodes, stdout \in DoltSqlStdouts :
        LET log == Append(cmds, Invocation("sql_query", "",
                                           "--result-format=parquet", exit, 0))
            outcome == dolt_run_command_capture_output(exit, TRUE)
        IN  /\ exit # 0 => stdout = <<>>
            /\ EnterCall("dolt_sql_query_to_polars_df", "idle", cmds)
            /\ cmds' = log
            /\ tmpDirs' = TemporaryDirectory(tmpDirs, Len(log), outcome)
            /\ IF outcome = "raise"
               THEN /\ Raised("CalledProcessError", "nonzero exit", {}, log, 0)
                    /\ UNCHANGED <<captured, parquet>>
               ELSE /\ captured' = stdout
                    /\ parquet' = TrimProgressMessages(stdout)
                    /\ Returned("idle")
    /\ UNCHANGED <<mode, stages, disk, repo, locals>>

InitTemp ==
    /\ tmpDirs = {}
    /\ captured = <<>>
    /\ parquet = <<>>

InitLocals ==
    /\ names = <<>>
    /\ tidx = 1
    /\ lidx = 1
    /\ tbl = ""
    /\ df = <<>>
    /\ csvIn = <<>>

InitControl(m, start) ==
    /\ mode = m
    /\ pc = start
    /\ ret = start
    /\ fn = "none"
    /\ res = "none"
    /\ fault = NoFault
    /\ cmds = <<>>
    /\ callStart = 0
    /\ prev = NoCall
    /\ nCalls = 0
    /\ stages = <<>>

(* main() starts on whatever the last run left of the data folder *)
Init ==
    /\ InitControl("job", "main_prepare")
    /\ dataFolder \in {"absent", "file", "dir"}
    /\ sqliteFile = FALSE
    /\ csvFile = FALSE
    /\ cloneLeft = NoFolder
    /\ tempDolt = NoFolder
    /\ repoDir = "absent"
    /\ catalog = {}
    /\ work = EmptyTables
    /\ staged = EmptyTables
    /\ head = Commit(EmptyTables, 0)
    /\ remote = head
    /\ InitLocals
    /\ work0 = EmptyTables
    /\ dirty0 = FALSE
    /\ InitTemp

Next ==
    \/ MainPrepare
    \/ MainDownloadSqlite
    \/ MainDownloadCsv
    \/ MainClone
    \/ MainTruncate
    \/ TruncateStep
    \/ MainLoadSqlite
    \/ MainLoadCsv
    \/ ImportCmd
    \/ MainPublish
    \/ CommitConfigEmail
    \/ CommitStatus
    \/ CommitAdd
    \/ CommitCommit
    \/ CommitPush

Spec == Init /\ [][Next]_vars

(* Every external invocation returns: a step that can be taken is taken. *)
FairSpec == Spec /\ WF_vars(Next)

(* The library is called on a freshly cloned working copy *)
LibInit ==
    /\ InitControl("lib", "idle")
    /\ dataFolder = "dir"
    /\ sqliteFile = TRUE
    /\ csvFile = TRUE
    /\ cloneLeft = NoFolder
    /\ tempDolt = NoFolder
    /\ repoDir = "ok"
    /\ catalog \in SUBSET LibTables
    /\ head \in {Commit(c, 0) : c \in RemoteContents(catalog)}
    /\ work = head.rows
    /\ staged = head.rows
    /\ remote = head
    /\ InitLocals
    /\ work0 = head.rows
    /\ dirty0 = FALSE
    /\ InitTemp

LibNext ==
    \/ LibTruncate
    \/ LibImport
    \/ LibCommitAndPush
    \/ TruncateStep
    \/ ImportCmd
    \/ CommitConfigEmail
    \/ CommitStatus
    \/ CommitAdd
    \/ CommitCommit
    \/ CommitPush

LibSpec == LibInit /\ [][LibNext]_vars

DedupInit ==
    /\ InitControl("lib", "idle")
    /\ dataFolder = "dir"
    /\ sqliteFile = TRUE
    /\ csvFile = TRUE
    /\ cloneLeft = NoFolder
    /\ tempDolt = NoFolder
    /\ repoDir = "ok"
    /\ catalog = Tables
    /\ head = Commit(EmptyTables, 0)
    /\ work = head.rows
    /\ staged = head.rows
    /\ remote = head
    /\ InitLocals
    /\ work0 = head.rows
    /\ dirty0 = FALSE
    /\ InitTemp

DedupNext ==
    \/ LibLoadBasicCsv
    \/ ImportCmd

DedupSpec == DedupInit /\ [][DedupNext]_vars

(* A caller that runs one query on a cloned copy. *)
QueryInit == DedupInit

QueryNext == LibQuery

QuerySpec == QueryInit /\ [][QueryNext]_vars

----------------------------------------------------------------------------
(* Properties of the library functions, checked under LibSpec *)

InCommitAndPush == fn = "dolt_commit_and_push"

InTruncate == fn = "dolt_truncate_tables"

InImport == fn = "import_polars_df_into_dolt_table"

Ops(log) == [i \in 1..Len(log) |-> log[i].op]

Issued(log, op) == \E i \in 1..Len(log) : log[i].op = op

(* C1: two successive calls of dolt_commit_and_push with nothing between    *)
(* them create at most one commit and make at most one push; a call commits *)
(* or pushes only if the copy was dirty when it was entered; and after a    *)
(* call that returned, the copy is clean and the next call issues no add,   *)
(* commit or push.                                                          *)
C1_PublishIdempotent ==
    InCommitAndPush =>
        /\ (Issued(CallCmds, "commit") \/ Issued(CallCmds, "push")) => dirty0
        /\ prev.fn = "dolt_commit_and_push" =>
            /\ prev.commits + CountOk(CallCmds, "commit") <= 1
            /\ prev.pushes + CountOk(CallCmds, "push") <= 1
        /\ (prev.fn = "dolt_commit_and_push" /\ prev.res = "ok") =>
            /\ ~dirty0
            /\ ~Issued(CallCmds, "add")
            /\ ~Issued(CallCmds, "commit")
            /\ ~Issued(CallCmds, "push")

(* a call that committed and pushed, followed by a call that returned *)
C1_Witness ==
    /\ InCommitAndPush
    /\ prev.fn = "dolt_commit_and_push"
    /\ prev.res = "ok"
    /\ prev.commits = 1
    /\ prev.pushes = 1
    /\ pc = "idle"
    /\ res = "ok"

(* C2: in dolt_commit_and_push, add is issued only after a status that      *)
(* showed a dirty copy, commit only right after a successful add, push only *)
(* right after a successful commit; on a dirty copy a call that returns has *)
(* issued add, commit, push in that order; the remote moves only to a       *)
(* commit made locally; a failed push ends the call with an exception and   *)
(* leaves the local commit in place, one commit ahead of what was pushed.   *)
C2_AddCommitPushInOrder ==
    InCommitAndPush =>
        LET c == CallCmds
        IN  /\ \A i \in 1..Len(c) :
                /\ c[i].op = "add" =>
                    i > 1 /\ c[i - 1].op = "status" /\ c[i - 1].ok /\ dirty0
                /\ c[i].op = "commit" =>
                    i > 1 /\ c[i - 1].op = "add" /\ c[i - 1].ok
                /\ c[i].op = "push" =>
                    i > 1 /\ c[i - 1].op = "commit" /\ c[i - 1].ok
            /\ (dirty0 /\ res = "ok") =>
                Ops(c) = <<"config", "config", "status", "add", "commit", "push">>
            /\ remote.n <= head.n
            /\ (c # <<>> /\ Last(c).op = "push" /\ ~Last(c).ok) =>
                /\ res = "raised"
                /\ fault.kind = "CalledProcessError"
                /\ head.rows = work
                /\ head.n > remote.n

(* a push that failed after the commit was made *)
C2_Witness ==
    /\ InCommitAndPush
    /\ pc = "idle"
    /\ res = "raised"
    /\ Last(CallCmds).op = "push"
    /\ head.n = remote.n + 1
    /\ head.rows # remote.rows

(* C3: every call of dolt_commit_and_push first sets user.name, then        *)
(* user.email, then asks for the status, dirty or not; on a clean copy a    *)
(* call that returns has issued these three commands and nothing else.      *)
C3_IdentityAlwaysSet ==
    InCommitAndPush =>
        LET c == CallCmds
        IN  /\ Len(c) >= 1
            /\ c[1].op = "config" /\ c[1].arg = "user.name"
            /\ Len(c) >= 2 =>
                c[1].ok /\ c[2].op = "config" /\ c[2].arg = "user.email"
            /\ Len(c) >= 3 => c[2].ok /\ c[3].op = "status"
            /\ res = "ok" => Len(c) >= 3
            /\ \A i \in 4..Len(c) : c[i].op \notin {"config", "status"}
            /\ ~dirty0 => IsPrefix(Ops(c), <<"config", "config", "status">>)
            /\ (res = "ok" /\ ~dirty0) => Ops(c) = <<"config", "config", "status">>

(* a call on a clean copy has returned *)
C3_Witness ==
    /\ InCommitAndPush
    /\ pc = "idle"
    /\ res = "ok"
    /\ ~dirty0
    /\ Len(CallCmds) = 3

(* C4: when a requested name is not a table, dolt_truncate_tables raises;   *)
(* once the catalog has been read the exception is the ValueError naming    *)
(* exactly the requested names that are missing; no DELETE was issued and   *)
(* every table has the rows it had.                                         *)
C4_TruncateChecksFirst ==
    (InTruncate /\ ~(ToSet(names) \subseteq catalog)) =>
        /\ res = "raised"
        /\ ~Issued(CallCmds, "delete")
        /\ work = work0
        /\ CallCmds[1].ok =>
            /\ fault.kind = "ValueError"
            /\ fault.msg = "tables not in the repository"
            /\ fault.missing = ToSet(names) \ catalog

(* a list with a table that exists and has rows, and one that is missing *)
C4_Witness ==
    /\ InTruncate
    /\ fault.kind = "ValueError"
    /\ Len(names) = 2
    /\ names[1] \in catalog
    /\ names[2] \notin catalog
    /\ work0[names[1]] # {}

(* C5: after a call of dolt_truncate_tables that returned, every table      *)
(* named in the list has no rows and every other table has the rows it had  *)
(* when the call was entered.                                               *)
C5_TruncatedTablesEmpty ==
    (InTruncate /\ res = "ok") =>
        \A t \in Tables :
            work[t] = IF t \in ToSet(names) THEN {} ELSE work0[t]

(* a later call of a sequence returned: a listed table had rows, a table    *)
(* not listed keeps its rows                                                *)
C5_Witness ==
    /\ InTruncate
    /\ res = "ok"
    /\ nCalls >= 2
    /\ \E t \in ToSet(names) : work0[t] # {}
    /\ \E t \in Tables \ ToSet(names) : work[t] # {}

(* C6: import_polars_df_into_dolt_table for a name that is not a table      *)
(* raises (the ValueError, once the catalog has been read) without issuing  *)
(* the import command; the working set is as it was.                        *)
C6_ImportUnknownTableRaises ==
    (InImport /\ tbl \notin catalog) =>
        /\ res = "raised"
        /\ ~Issued(CallCmds, "import")
        /\ Ops(CallCmds) = <<"show_tables">>
        /\ work = work0
        /\ CallCmds[1].ok =>
            /\ fault.kind = "ValueError"
            /\ fault.msg = "table does not exist"

(* the catalog was read and does not hold the name *)
C6_Witness ==
    /\ InImport
    /\ tbl \notin catalog
    /\ catalog # {}
    /\ fault.kind = "ValueError"

----------------------------------------------------------------------------
(* Properties of a run of main(), checked under Spec *)

RECURSIVE OkArgs(_, _)
OkArgs(log, op) ==
    IF log = <<>> THEN <<>>
    ELSE IF Head(log).op = op /\ Head(log).ok
         THEN <<Head(log).arg>> \o OkArgs(Tail(log), op)
         ELSE OkArgs(Tail(log), op)

(* the tables truncated, and the tables loaded, so far, in order *)
TruncatedOrder == OkArgs(cmds, "delete")

LoadedOrder == OkArgs(cmds, "import")

Position(s, x) == CHOOSE i \in 1..Len(s) : s[i] = x

Before(s, a, b) ==
    a \in ToSet(s) /\ b \in ToSet(s) /\ Position(s, a) < Position(s, b)

Parents == {"manufacturers", "categories"}

(* C7, as claimed: the i-th table loaded is the i-th from last table        *)
(* truncated.                                                               *)
C7_LoadIsExactReverse ==
    \A i \in 1..Len(LoadedOrder) :
        /\ Len(TruncatedOrder) = Len(TRUNCATE_TABLE_NAMES)
        /\ LoadedOrder[i] = Reverse(TruncatedOrder)[i]

(* C7, amended: loading starts when all tables are truncated; of two tables *)
(* other than the pair manufacturers, categories, the one truncated first   *)
(* is loaded last; manufacturers comes before categories in both orders.    *)
C7_LoadReversesTruncateButParents ==
    LoadedOrder # <<>> =>
        /\ TruncatedOrder = TRUNCATE_TABLE_NAMES
        /\ IsPrefix(LoadedOrder,
                    <<"manufacturers", "categories", "components",
                      "jlcpcb_components_basic">>)
        /\ \A a, b \in ToSet(LoadedOrder) :
            (a # b /\ {a, b} # Parents /\ Before(TruncatedOrder, a, b))
                => Before(LoadedOrder, b, a)
        /\ Before(TruncatedOrder, "manufacturers", "categories")
        /\ "categories" \in ToSet(LoadedOrder)
            => Before(LoadedOrder, "manufacturers", "categories")

(* all four tables are loaded *)
C7_Witness ==
    /\ pc = "done"
    /\ Len(LoadedOrder) = Len(TRUNCATE_TABLE_NAMES)

OpStages(op) ==
    CASE op = "http_get" -> {"acquire"}
      [] op = "clone" -> {"clone"}
      [] op = "show_tables" -> {"truncate", "load"}
      [] op = "delete" -> {"truncate"}
      [] op = "import" -> {"load"}
      [] OTHER -> {"publish"}

(* C8: the stages are entered in the order prepare, acquire, clone,         *)
(* truncate, load, publish, each at most once and each after the commands   *)
(* of the stage before it succeeded; every invocation belongs to the stage  *)
(* entered last; an exception ends the run where it is raised, so a failed  *)
(* invocation is the last one made and none is made twice.                  *)
C8_StagesInOrderNoRetry ==
    /\ IsPrefix(stages, StageOrder)
    /\ \A i \in 1..Len(cmds) :
        /\ cmds[i].stage \in 1..Len(stages)
        /\ StageOrder[cmds[i].stage] \in OpStages(cmds[i].op)
        /\ \A j \in (i + 1)..Len(cmds) :
            /\ cmds[i].ok
            /\ cmds[i].stage <= cmds[j].stage
            /\ (cmds[i].op = cmds[j].op /\ cmds[i].arg = cmds[j].arg)
                => cmds[i].op = "show_tables"
    /\ Len(stages) >= 3 => CountOk(cmds, "http_get") = 2
    /\ Len(stages) >= 4 => CountOk(cmds, "clone") = 1
    /\ Len(stages) >= 5 => TruncatedOrder = TRUNCATE_TABLE_NAMES
    /\ Len(stages) >= 6 => Len(LoadedOrder) = Len(TRUNCATE_TABLE_NAMES)
    /\ (cmds # <<>> /\ ~Last(cmds).ok) => pc = "aborted"
    /\ pc = "aborted" <=> fault.kind # "none"
    /\ pc = "aborted" =>
        /\ fault.at = Len(cmds)
        /\ fault.stage = Len(stages)
        /\ res = "raised"
    /\ pc = "done" => stages = StageOrder

(* a DELETE failed in the middle of the truncation and ended the run *)
C8_Witness ==
    /\ pc = "aborted"
    /\ Last(stages) = "truncate"
    /\ Last(cmds).op = "delete"
    /\ ~Last(cmds).ok
    /\ Len(TruncatedOrder) = 2

FrameKeys(frame) == {r[KeyColumn] : r \in FrameRows(frame)}

(* C9: commit (and push) is issued only after the DELETE of each table of   *)
(* the truncation list and the import of each of the four datasets          *)
(* succeeded, none of them having failed, and the CSV passed the check on   *)
(* the number of rows removed.                                              *)
C9_CommitOnlyAfterFullReload ==
    (Issued(cmds, "commit") \/ Issued(cmds, "push")) =>
        /\ TruncatedOrder = TRUNCATE_TABLE_NAMES
        /\ Len(SelectOps(cmds, "delete")) = Len(TRUNCATE_TABLE_NAMES)
        /\ ToSet(LoadedOrder) = Tables
        /\ Len(SelectOps(cmds, "import")) = Cardinality(Tables)
        /\ Height(csvIn) - Cardinality(FrameKeys(csvIn)) <= ROWS_REMOVED_LIMIT
        /\ \A t \in Tables : staged[t] = work[t]

(* a run that committed *)
C9_Witness ==
    /\ pc = "done"
    /\ CountOk(cmds, "commit") = 1
    /\ head.n = 1

----------------------------------------------------------------------------
(* Properties of the cleaning of the CSV, checked under DedupSpec *)

(* the cell that sorts first, descending with nulls last *)
ColumnMax(cells) ==
    CHOOSE x \in cells : \A y \in cells : x = y \/ CellBefore(x, y)

CleaningDone ==
    /\ csvIn # <<>>
    /\ fault.msg \notin {"read_csv", "unexpected column order"}

(* C10, as claimed: the cleaned frame has one row for each key of the frame *)
(* read, and in that row every other column holds the maximum (descending,  *)
(* nulls last) of the column over the rows read with that key.              *)
C10_DedupLaw ==
    CleaningDone =>
        /\ \A k \in FrameKeys(csvIn) :
            Cardinality({i \in 1..Len(df) : df[i].row[KeyColumn] = k}) = 1
        /\ \A i \in 1..Len(df) :
            /\ df[i].n = 1
            /\ df[i].row[KeyColumn] \in FrameKeys(csvIn)
            /\ \A c \in Columns \ {KeyColumn} :
                df[i].row[c] =
                    ColumnMax({r[c] : r \in {q \in FrameRows(csvIn) :
                                    q[KeyColumn] = df[i].row[KeyColumn]}})

(* rows that share their key with an earlier row of the frame read *)
DuplicateRows == Height(csvIn) - Cardinality(FrameKeys(csvIn))

(* C11: a cleaning that removes at most 100 rows (100 included) goes on to  *)
(* the import: no fault for the number of rows removed, and the import      *)
(* function is entered.  A cleaning that removes 101 rows or more raises    *)
(* the ValueError for too many rows removed, and neither the import command *)
(* nor any other command has been invoked.                                  *)
C11_ThresholdBoundary ==
    CleaningDone =>
        /\ DuplicateRows <= ROWS_REMOVED_LIMIT =>
            /\ fault.msg # "removed too many rows"
            /\ fn = "import_polars_df_into_dolt_table"
            /\ Issued(cmds, "show_tables")
            /\ (pc = "imp_cmd" \/ Issued(cmds, "import") \/ res = "raised")
        /\ DuplicateRows >= ROWS_REMOVED_LIMIT + 1 =>
            /\ res = "raised"
            /\ fault.kind = "ValueError"
            /\ fault.msg = "removed too many rows"
            /\ cmds = <<>>
            /\ fn = "none"

(* exactly 100 rows were removed and the frame was imported *)
C11_Witness ==
    /\ CleaningDone
    /\ DuplicateRows = ROWS_REMOVED_LIMIT
    /\ Issued(cmds, "import")
    /\ Last(cmds).ok
    /\ res = "ok"

(* 101 rows were removed and the load was refused *)
C11_WitnessOver ==
    /\ CleaningDone
    /\ DuplicateRows = ROWS_REMOVED_LIMIT + 1
    /\ fault.msg = "removed too many rows"

----------------------------------------------------------------------------
(* Properties of dolt_clone_repository, checked under Spec *)

(* "dolt clone" was run and exited with 0 *)
CloneCommandOk ==
    \E i \in 1..Len(cmds) : cmds[i].op = "clone" /\ cmds[i].ok

OnlySubfolders(folder) == \A f \in folder.entries : f.dir

(* C12: once the clone command has succeeded, a .dolt folder left in the    *)
(* parent folder that holds only folders, at any depth, is removed; one     *)
(* that holds a file, at any depth, makes dolt_clone_repository raise a     *)
(* RuntimeError and is left exactly as it was found.                        *)
C12_CloneCleanup ==
    (CloneCommandOk /\ cloneLeft.kind = "dir") =>
        /\ OnlySubfolders(cloneLeft) => tempDolt = NoFolder
        /\ ~OnlySubfolders(cloneLeft) =>
            /\ tempDolt = cloneLeft
            /\ pc = "aborted"
            /\ fn = "dolt_clone_repository"
            /\ fault.kind = "RuntimeError"
            /\ fault.msg = "unexpected files"
            /\ Last(cmds).op = "clone"

(* a .dolt folder with a folder inside a folder was removed *)
C12_Witness ==
    /\ CloneCommandOk
    /\ Entry(<<"tmp", "x">>, TRUE) \in cloneLeft.entries
    /\ tempDolt = NoFolder
    /\ res = "ok"

(* a .dolt folder with a file two levels down was kept and ended the run *)
C12_WitnessFile ==
    /\ CloneCommandOk
    /\ Entry(<<"tmp", "x">>, FALSE) \in cloneLeft.entries
    /\ tempDolt = cloneLeft
    /\ pc = "aborted"

----------------------------------------------------------------------------
(* Properties of dolt_sql_query_to_polars_df, checked under QuerySpec *)

QueryReturned == fn = "dolt_sql_query_to_polars_df" /\ res = "ok"

(* C13: output made of the start message, a payload and the end message is  *)
(* reduced to exactly the payload before it is parsed, whatever the payload *)
(* holds (newlines, the word "Processed", the text of the messages); output *)
(* that neither starts with the start message nor ends with the end message *)
(* is given to the parser as it is.                                         *)
C13_ProgressStripped ==
    QueryReturned =>
        /\ \A payload \in Payloads :
            captured = PROGRESS_START \o payload \o PROGRESS_END =>
                parquet = payload
        /\ (~IsPrefix(PROGRESS_START, captured)
                /\ ~IsPrefix(Reverse(PROGRESS_END), Reverse(captured))) =>
            parquet = captured

(* both messages were around a payload that holds the word and a newline *)
C13_Witness ==
    /\ QueryReturned
    /\ captured = PROGRESS_START \o <<"PAR1", "Processed", "\n">> \o PROGRESS_END
    /\ parquet = <<"PAR1", "Processed", "\n">>

----------------------------------------------------------------------------
(* Temporary directories, checked under LibSpec *)

(* C14: whenever dolt_sql_query_to_polars_df, dolt_run_sql or               *)
(* import_polars_df_into_dolt_table has run its command, the temporary      *)
(* directory it made for it no longer exists, whether the command returned  *)
(* or raised CalledProcessError: between commands and after every call no   *)
(* temporary directory exists.                                              *)
C14_TempDirsReleased == tmpDirs = {}

(* an import command failed inside its temporary directory *)
C14_Witness ==
    /\ InImport
    /\ res = "raised"
    /\ fault.kind = "CalledProcessError"
    /\ Last(cmds).op = "import"
    /\ ~Last(cmds).ok
    /\ tmpDirs = {}
    /\ \E i \in 1..Len(cmds) : cmds[i].op = "show_tables" /\ cmds[i].ok

----------------------------------------------------------------------------
(* Frame of the import and of the truncation, checked under LibSpec *)

PublishOps == {"add", "commit", "push"}

(* a step that stages, commits or pushes, or changes what is staged, the   *)
(* local branch or the remote branch                                       *)
PublishingStep ==
    \/ staged' # staged
    \/ head' # head
    \/ remote' # remote
    \/ (cmds' # cmds /\ Last(cmds').op \in PublishOps)

(* C15: no step of import_polars_df_into_dolt_table or of                   *)
(* dolt_truncate_tables stages, commits or pushes: the staged set, the      *)
(* local branch and the remote branch change, and add, commit and push are  *)
(* invoked, only in steps of dolt_commit_and_push.                          *)
C15_OnlyCommitAndPushPublishes ==
    [][PublishingStep => (InCommitAndPush /\ InCommitAndPush')]_vars

(* an import and a truncation changed the working set and nothing else *)
C15_Witness ==
    /\ InImport
    /\ res = "ok"
    /\ prev.fn = "dolt_truncate_tables"
    /\ prev.res = "ok"
    /\ work # work0
    /\ staged # work
    /\ head.n = 0
    /\ remote.n = 0

----------------------------------------------------------------------------
(* The mode of the import, checked under LibSpec *)

ImportInvoked == cmds' # cmds /\ Last(cmds').op = "import"

(* C16: the import command is invoked only for a table of the database,     *)
(* with the flag of the replace mode or of the append mode (the flag is     *)
(* always that of the append mode) and never with the flag of the create    *)
(* mode; no step of import_polars_df_into_dolt_table adds a table to the    *)
(* database.                                                                *)
C16_ImportNeverCreates ==
    [][InImport' =>
        /\ catalog' = catalog
        /\ ImportInvoked =>
            /\ Last(cmds').arg \in catalog
            /\ Last(cmds').flag \in {"--replace-table", "--append-table"}
            /\ Last(cmds').flag # "--create-table"
            /\ Last(cmds').flag = "--append-table"]_vars

(* rows were appended to a table of the database *)
C16_Witness ==
    /\ InImport
    /\ res = "ok"
    /\ Last(cmds).op = "import"
    /\ Last(cmds).flag = "--append-table"
    /\ Last(cmds).arg \in catalog
    /\ work[tbl] # {}

----------------------------------------------------------------------------
(* Partial truncation, checked under LibSpec *)

(* the DELETE statements of the running dolt_truncate_tables, in order;    *)
(* the first command of the call is SHOW TABLES                            *)
Deletes == SubSeq(CallCmds, 2, Len(CallCmds))

(* one DELETE per name, in the order of the list, each issued only after   *)
(* the one before it succeeded, and all of them when the call returns      *)
DeletesFollowNames ==
    /\ Len(Deletes) <= Len(names)
    /\ \A j \in 1..Len(Deletes) :
        /\ Deletes[j].op = "delete"
        /\ Deletes[j].arg = names[j]
        /\ j < Len(Deletes) => Deletes[j].ok
    /\ res = "ok" => (Len(Deletes) = Len(names) /\ \A j \in 1..Len(Deletes) : Deletes[j].ok)
    /\ res = "running" => \A j \in 1..Len(Deletes) : Deletes[j].ok

(* the statement at position i failed *)
DeleteFailedAt(i) == i = Len(Deletes) /\ i >= 1 /\ ~Deletes[i].ok

(* the failure ends the call there and reaches the caller *)
FailurePropagates ==
    /\ res = "raised"
    /\ fault.kind = "CalledProcessError"
    /\ fault.at = Len(cmds)
    /\ pc = "idle"

(* C17, as claimed: one DELETE per requested name in the order of the list; *)
(* when the statement at position i fails, the tables before i are empty,   *)
(* the tables at position i and after have the rows they had when the call  *)
(* began, nothing more is invoked and the fault reaches the caller.         *)
C17_PartialTruncation ==
    (InTruncate /\ Len(CallCmds) >= 1 /\ CallCmds[1].ok) =>
        /\ DeletesFollowNames
        /\ \A i \in 1..Len(names) : DeleteFailedAt(i) =>
            /\ FailurePropagates
            /\ \A j \in 1..(i - 1) : work[names[j]] = {}
            /\ \A j \in i..Len(names) : work[names[j]] = work0[names[j]]

(* C17, amended: the same, where the tables that keep their rows are those  *)
(* at position i and after whose name does not occur before position i;    *)
(* the tables that are not in the list keep their rows too.                 *)
C17_PartialTruncationOfDistinct ==
    (InTruncate /\ Len(CallCmds) >= 1 /\ CallCmds[1].ok) =>
        /\ DeletesFollowNames
        /\ \A i \in 1..Len(names) : DeleteFailedAt(i) =>
            LET done == {names[j] : j \in 1..(i - 1)}
            IN  /\ FailurePropagates
                /\ \A t \in done : work[t] = {}
                /\ \A t \in Tables \ done : work[t] = work0[t]

(* the second of two statements failed: the first table lost its rows, the  *)
(* second one has them                                                      *)
C17_Witness ==
    /\ InTruncate
    /\ Len(names) = 2
    /\ names[1] # names[2]
    /\ DeleteFailedAt(2)
    /\ work0[names[1]] # {}
    /\ work[names[1]] = {}
    /\ work[names[2]] # {}

InClone == fn = "dolt_clone_repository"

(* C18: dolt_clone_repository returns the path only when the clone command  *)
(* exited with 0 and, the cleanup of the parent folder done, the repository *)
(* folder exists and holds its .dolt folder.  When the command fails, the   *)
(* repository folder is missing or its .dolt folder is missing, it raises   *)
(* (CalledProcessError, RuntimeError), the run ends in the clone stage, and *)
(* no stage after it is entered.                                            *)
C18_CloneReturnsMaterializedCopy ==
    Issued(cmds, "clone") =>
        /\ (InClone /\ res = "ok") =>
            /\ CloneCommandOk
            /\ repoDir = "ok"
            /\ ~is_dir(tempDolt)
        /\ Len(stages) >= 4 => (CloneCommandOk /\ repoDir = "ok")
        /\ (~CloneCommandOk \/ repoDir # "ok") =>
            /\ InClone
            /\ res = "raised"
            /\ pc = "aborted"
            /\ Last(stages) = "clone"
            /\ Last(cmds).op = "clone"
            /\ fault.kind = IF CloneCommandOk THEN "RuntimeError"
                            ELSE "CalledProcessError"
        /\ (CloneCommandOk /\ ~is_dir(tempDolt) /\ repoDir = "absent") =>
            fault.msg = "expected the folder"
        /\ (CloneCommandOk /\ ~is_dir(tempDolt) /\ repoDir = "no_marker") =>
            fault.msg = "expected the .dolt folder"

(* the clone command succeeded, the repository folder has no .dolt folder *)
C18_Witness ==
    /\ CloneCommandOk
    /\ repoDir = "no_marker"
    /\ pc = "aborted"
    /\ fault.msg = "expected the .dolt folder"

----------------------------------------------------------------------------
(* Truncation and load together, checked under Spec *)

(* the positions in cmds of the successful invocations of op for table t *)
OkAt(op, t) ==
    {i \in 1..Len(cmds) : cmds[i].op = op /\ cmds[i].arg = t /\ cmds[i].ok}

PublishReached == pc = "main_publish" \/ Len(stages) >= Len(StageOrder)

(* C19: a table is loaded at most once and only after it was truncated; in  *)
(* a run that reaches the publish stage the tables truncated are the tables *)
(* loaded, each loaded exactly once, and each of them holds exactly the     *)
(* rows of the dataset imported into it, so no row of the cloned commit     *)
(* that is not in that dataset.                                             *)
C19_TruncatedThenLoadedOnce ==
    /\ \A t \in Tables :
        /\ Cardinality(OkAt("import", t)) <= 1
        /\ \A i \in OkAt("import", t) : \E j \in OkAt("delete", t) : j < i
    /\ PublishReached =>
        /\ ToSet(TruncatedOrder) = ToSet(LoadedOrder)
        /\ ToSet(LoadedOrder) = Tables
        /\ \A t \in Tables :
            /\ Cardinality(OkAt("import", t)) = 1
            /\ Cardinality(OkAt("delete", t)) = 1
            /\ \A i \in OkAt("import", t) : work[t] = cmds[i].rows

(* the commit is made, not pushed yet: a table that held a row in the       *)
(* cloned commit now holds the new dataset, a different row, only           *)
C19_Witness ==
    /\ pc = "cp_push"
    /\ remote.n = 0
    /\ \E t \in Tables :
        /\ remote.rows[t] = {OldRow}
        /\ work[t] = {NewRow}
        /\ head.rows[t] = {NewRow}

----------------------------------------------------------------------------
(* Termination of main(), checked under FairSpec *)

Terminal == pc = "done" \/ pc = "aborted"

(* the most invocations a run can make: two downloads, the clone, SHOW      *)
(* TABLES and one DELETE per table, SHOW TABLES and one import per dataset, *)
(* and the six commands of dolt_commit_and_push                             *)
MostCommands ==
    2 + 1 + (1 + Len(TRUNCATE_TABLE_NAMES)) + 2 * (Len(SQLITE_TABLE_NAMES) + 1)
    + 6

NoStageRepeated ==
    \A i, j \in 1..Len(stages) : stages[i] = stages[j] => i = j

(* C20: given that every external invocation returns, every run of main()   *)
(* reaches one of the two final positions, completed or aborted, and stays  *)
(* there; it never makes more than MostCommands invocations and never       *)
(* enters a stage a second time.                                            *)
C20_Terminates ==
    /\ [](Len(cmds) <= MostCommands /\ NoStageRepeated)
    /\ [][Terminal => pc' = pc]_vars
    /\ <>[]Terminal

(* a run completed after the most invocations a run can make *)
C20_Witness ==
    /\ pc = "done"
    /\ Len(cmds) = MostCommands
    /\ stages = StageOrder

====
